---- MODULE Spec2Model ----
(***************************************************************************)
(* Model of the MarqueeText component of src/index.js: the controller that *)
(* measures container and text widths, decides whether to animate, drives  *)
(* the horizontal offset and manages the single delayed-callback slot.     *)
(*                                                                         *)
(* Host facilities are modelled by what the component observes of them:    *)
(*  - UIManager.measure answers asynchronously (MeasureDone);              *)
(*  - the JS timer fires a pending callback at some later step (TimerFire);*)
(*  - Animated.timing moves the value toward toValue frame by frame        *)
(*    (AnimationFrame) and reports {finished: true} when it reached it     *)
(*    (AnimationEnd); Animated.Value.setValue stops a running animation,   *)
(*    whose callback then receives {finished: false}.                      *)
(* Props other than children are fixed for the lifetime of an instance.    *)
(* setState is applied together with its callback in the step that calls   *)
(* it.                                                                     *)
(***************************************************************************)
EXTENDS Integers, Sequences, FiniteSets, TLC

\* ---------------------------------------------------------------- bounds
MaxInflight == 2      \* measurements outstanding at once
MaxTimerId == 2       \* distinct live timer handles
FrameStep == 75       \* pixels the offset moves per modelled frame

\* ------------------------------------------------------- input domains
Widths == {100, 250}            \* container widths
TextWidths == {100, 175, 250}   \* text widths
Speeds == {50, 100}
NonPositiveSpeeds == {-50, 0}
Delays == {0, 300}
ResetDelays == {0, 200}
Children == {"a", "b"}

MinResetDelay == 100

VARIABLES
  speed, loop, marqueeOnStart, marqueeDelay, marqueeResetDelay, children,
  phase,            \* "constructed", "mounted", "unmounted"
  animating,        \* this.state.animating
  animatedValue,    \* current value of this.animatedValue (the offset)
  anim,             \* the animation in flight on animatedValue
  distance,         \* this.distance: [k |-> "null" | "num" | "error", v]
  contentFits,      \* this.contentFits
  containerWidth,   \* widths of the measurement that produced distance
  textWidth,
  timer,            \* this.timer: 0 when falsy, else a timer handle
  pendingT,         \* host timers not yet fired: {[id, delay]}
  inflight,         \* calculateMetrics calls awaiting their measurement
  last,             \* label of the last step, see Op
  completeCalls     \* onMarqueeComplete() invocations made by the last step

props == <<speed, loop, marqueeOnStart, marqueeDelay, marqueeResetDelay>>
metrics == <<distance, contentFits, containerWidth, textWidth>>
timers == <<timer, pendingT>>
vars == <<props, children, phase, animating, animatedValue, anim, metrics,
          timers, inflight, last, completeCalls>>

Max(a, b) == IF a >= b THEN a ELSE b
Min(a, b) == IF a <= b THEN a ELSE b

NullDistance == [k |-> "null", v |-> 0]
ErrorDistance == [k |-> "error", v |-> 0]
NumDistance(n) == [k |-> "num", v |-> n]

NoAnim ==
  [active |-> FALSE, from |-> 0, toValue |-> 0, duration |-> 0,
   durKind |-> "num", isNaN |-> FALSE]
\* the label of a step: the handler, this.state.animating when it began,
\* whether it saw changed children, and the measurement it completed
Op(name) ==
  [op |-> name, was |-> animating, changed |-> FALSE, origin |-> "none",
   decision |-> "none", ok |-> TRUE]

\* shouldAnimate(distance): distance > 0; null > 0 and Error > 0 are false
shouldAnimate(d) == d.k = "num" /\ d.v > 0

\* containerWidth - textWidth
calculateDistance(cw, tw) == cw - tw

\* toValue: -this.distance (-null is 0, -Error is NaN)
ToValue(d) == IF d.k = "num" THEN 0 - d.v ELSE 0

\* duration: this.distance / speed * 1000 (null / speed is 0); the number
\* when DurationKind says it is one
Duration(d, s) ==
  IF d.k = "num" /\ s > 0 THEN (d.v * 1000) \div s
  ELSE IF d.k = "num" /\ s < 0 THEN 0 - ((d.v * 1000) \div (0 - s))
  ELSE 0

\* the kind of number the division gives: x / 0 is Infinity, 0 / 0 and
\* null / 0 and Error / speed are NaN
DurationKind(d, s) ==
  IF d.k = "error" THEN "nan"
  ELSE IF s # 0 THEN "num"
  ELSE IF d.k = "num" /\ d.v # 0 THEN "inf"
  ELSE "nan"

\* ------------------------------------------------------ timer scheduler
PendingIds == {p.id : p \in pendingT}

\* the handle the host returns: one not in use (handles are never reused
\* while the component still holds or awaits them)
NewTimerId == CHOOSE i \in 1..MaxTimerId : i # timer /\ i \notin PendingIds

\* host clearTimeout(this.timer): the callback with that handle is dropped
Cancelled == {p \in pendingT : p.id # timer}

\* a clearTimeout that leaves the host timer running
clearTimeoutMut == UNCHANGED timers

clearTimeout ==
  IF timer # 0
    THEN /\ pendingT' = Cancelled
         /\ timer' = 0
    ELSE UNCHANGED timers

\* a setTimeout that does not clear the timer it replaces
setTimeoutMut(time) ==
  /\ pendingT' = pendingT \cup {[id |-> NewTimerId, delay |-> time]}
  /\ timer' = NewTimerId

\* this.clearTimeout(); this.timer = setTimeout(fn, time)
setTimeout(time) ==
  LET rest == IF timer # 0 THEN Cancelled ELSE pendingT
      id == NewTimerId
  IN /\ pendingT' = rest \cup {[id |-> id, delay |-> time]}
     /\ timer' = id

start(timeDelay) == setTimeout(timeDelay)

\* startAnimation without its guard on this.state.animating
startAnimationMut(a, timeDelay) == start(timeDelay)

\* startAnimation as run when this.state.animating has the value a
startAnimation(a, timeDelay) ==
  IF a THEN UNCHANGED timers ELSE start(timeDelay)

\* the reset delay without the floor
ResetDelayMut == marqueeResetDelay

\* Math.max(100, this.props.marqueeResetDelay)
ResetDelay == Max(MinResetDelay, marqueeResetDelay)

\* ---------------------------------------------------- animation driver
\* Animated.Value.setValue(0): the value becomes 0 and a running animation
\* is stopped
setValue0 ==
  /\ animatedValue' = 0
  /\ anim' = NoAnim

\* a completion callback that does not test `finished`
CallsAtEndMut(finished) ==
  IF ~loop THEN 1 ELSE 0

\* onMarqueeComplete calls the completion callback makes, run with `finished`
CallsAtEnd(finished) ==
  IF finished /\ ~loop THEN 1 ELSE 0

\* a running animation that is stopped reports {finished: false}
Interrupted ==
  completeCalls' = IF anim.active THEN CallsAtEnd(FALSE) ELSE 0

\* a stop that leaves the offset where the animation had brought it
stopMut ==
  /\ anim' = NoAnim
  /\ animating' = FALSE
  /\ UNCHANGED animatedValue

stop ==
  /\ setValue0
  /\ animating' = FALSE

resetAnimation ==
  /\ setValue0
  /\ animating' = FALSE
  /\ startAnimation(FALSE, ResetDelay)

\* a content change that keeps the cached metrics
invalidateMetricsMut == UNCHANGED metrics

invalidateMetrics ==
  /\ distance' = NullDistance
  /\ contentFits' = FALSE
  /\ UNCHANGED <<containerWidth, textWidth>>

\* calculateMetrics up to its await: the two measure requests are issued
Measuring(origin, decision) ==
  inflight' = Append(inflight, [origin |-> origin, decision |-> decision])

\* ------------------------------------------------------------- lifecycle
InitWith(speeds) ==
  /\ speed \in speeds
  /\ loop \in BOOLEAN
  /\ marqueeOnStart \in BOOLEAN
  /\ marqueeDelay \in Delays
  /\ marqueeResetDelay \in ResetDelays
  /\ children = "a"
  /\ phase = "constructed"
  /\ animating = FALSE
  /\ animatedValue = 0
  /\ anim = NoAnim
  /\ distance = NullDistance
  /\ contentFits = FALSE
  /\ containerWidth = 0
  /\ textWidth = 0
  /\ timer = 0
  /\ pendingT = {}
  /\ inflight = <<>>
  /\ last = Op("constructor")
  /\ completeCalls = 0

\* speed as the spec requires it (> 0)
Init == InitWith(Speeds)

\* speed as the Props type allows it too (any number)
InitAnySpeed == InitWith(NonPositiveSpeeds)

\* a componentDidMount that starts whatever marqueeOnStart says
componentDidMountMut ==
  /\ phase = "constructed"
  /\ phase' = "mounted"
  /\ startAnimation(animating, marqueeDelay)
  /\ last' = Op("componentDidMount")
  /\ completeCalls' = 0
  /\ UNCHANGED <<props, children, animating, animatedValue, anim, metrics,
                 inflight>>

componentDidMount ==
  /\ phase = "constructed"
  /\ phase' = "mounted"
  /\ IF marqueeOnStart
       THEN startAnimation(animating, marqueeDelay)
       ELSE UNCHANGED timers
  /\ last' = Op("componentDidMount")
  /\ completeCalls' = 0
  /\ UNCHANGED <<props, children, animating, animatedValue, anim, metrics,
                 inflight>>

componentWillReceiveProps(nextChildren) ==
  /\ phase = "mounted"
  /\ children' = nextChildren
  /\ IF children # nextChildren
       THEN /\ invalidateMetrics
            /\ resetAnimation
            /\ Interrupted
       ELSE /\ completeCalls' = 0
            /\ UNCHANGED <<metrics, animatedValue, anim, animating, timers>>
  /\ last' = [Op("componentWillReceiveProps") EXCEPT
                !.changed = (children # nextChildren)]
  /\ UNCHANGED <<props, phase, inflight>>

componentWillUnmount ==
  /\ phase = "mounted"
  /\ phase' = "unmounted"
  /\ IF animating
       THEN stop /\ Interrupted
       ELSE /\ completeCalls' = 0
            /\ UNCHANGED <<animatedValue, anim, animating>>
  /\ clearTimeout
  /\ last' = Op("componentWillUnmount")
  /\ UNCHANGED <<props, children, metrics, inflight>>

\* ------------------------------------------------- calls of the methods
CallStartAnimation(timeDelay) ==
  /\ phase = "mounted"
  /\ startAnimation(animating, timeDelay)
  /\ last' = Op("startAnimation")
  /\ completeCalls' = 0
  /\ UNCHANGED <<props, children, phase, animating, animatedValue, anim,
                 metrics, inflight>>

CallStopAnimation ==
  /\ phase = "mounted"
  /\ stop
  /\ Interrupted
  /\ last' = Op("stopAnimation")
  /\ UNCHANGED <<props, children, phase, metrics, timers, inflight>>

CallResetAnimation ==
  /\ phase = "mounted"
  /\ resetAnimation
  /\ Interrupted
  /\ last' = Op("resetAnimation")
  /\ UNCHANGED <<props, children, phase, metrics, inflight>>

\* a size-change handler that resets like a content change does
ContentSizeChangeMut ==
  /\ phase = "mounted"
  /\ Len(inflight) < MaxInflight
  /\ Measuring("size", "none")
  /\ resetAnimation
  /\ Interrupted
  /\ last' = Op("onContentSizeChange")
  /\ UNCHANGED <<props, children, phase, metrics>>

\* onContentSizeChange={() => this.calculateMetrics()}
ContentSizeChange ==
  /\ phase = "mounted"
  /\ Len(inflight) < MaxInflight
  /\ Measuring("size", "none")
  /\ last' = Op("onContentSizeChange")
  /\ completeCalls' = 0
  /\ UNCHANGED <<props, children, phase, animating, animatedValue, anim,
                 metrics, timers>>

\* --------------------------------------------------------- timer callback
\* Animated.timing(this.animatedValue, {toValue, duration}).start(...):
\* the animation runs from the value's current value
TimingStart ==
  [active |-> TRUE, from |-> animatedValue, toValue |-> ToValue(distance),
   duration |-> Duration(distance, speed),
   durKind |-> DurationKind(distance, speed),
   isNaN |-> distance.k = "error"]

\* the callback of start: calculateMetrics() is called and not awaited, then
\* contentFits is read
callback ==
  IF ~contentFits
    THEN /\ Measuring("start", "animate")
         /\ animating' = TRUE
         /\ anim' = TimingStart
         /\ Interrupted
         /\ UNCHANGED animatedValue
    ELSE /\ Measuring("start", "skip")
         /\ completeCalls' = 0
         /\ UNCHANGED <<animating, anim, animatedValue>>

\* the host fires a pending timer; this.timer keeps the fired handle
TimerFire ==
  \E p \in pendingT :
    /\ Len(inflight) < MaxInflight
    /\ pendingT' = pendingT \ {p}
    /\ timer' = timer
    /\ callback
    /\ last' = Op("callback")
    /\ UNCHANGED <<props, children, phase, metrics>>

\* ------------------------------------------------------------ measurement
Remove(seq, i) == SubSeq(seq, 1, i - 1) \o SubSeq(seq, i + 1, Len(seq))

Measurements ==
  [ok : {TRUE}, cw : Widths, tw : TextWidths] \cup
  {[ok |-> FALSE, cw |-> 0, tw |-> 0]}

\* what calculateDistance resolves to: the difference of the widths, or the
\* Error object it returns from its catch
Resolved(m) ==
  IF m.ok THEN NumDistance(calculateDistance(m.cw, m.tw)) ELSE ErrorDistance

\* calculateMetrics after its await
calculateMetrics(m) ==
  /\ distance' = Resolved(m)
  /\ contentFits' = ~shouldAnimate(Resolved(m))
  /\ IF m.ok
       THEN containerWidth' = m.cw /\ textWidth' = m.tw
       ELSE UNCHANGED <<containerWidth, textWidth>>

MeasureDone ==
  \E i \in 1..Len(inflight), m \in Measurements :
    /\ inflight' = Remove(inflight, i)
    /\ calculateMetrics(m)
    /\ last' = [Op("calculateMetrics") EXCEPT
                  !.origin = inflight[i].origin,
                  !.decision = inflight[i].decision, !.ok = m.ok]
    /\ completeCalls' = 0
    /\ UNCHANGED <<props, children, phase, animating, animatedValue, anim,
                   timers>>

\* -------------------------------------------------------- animation steps
Toward(from, to) ==
  IF from > to THEN Max(to, from - FrameStep)
  ELSE IF from < to THEN Min(to, from + FrameStep)
  ELSE to

\* a timing animation whose duration is Infinity or NaN never reaches its
\* end; one whose duration is not positive is at its end in its first frame
AnimationFrame ==
  /\ anim.active
  /\ anim.durKind = "num"
  /\ animatedValue # anim.toValue
  /\ animatedValue' = IF anim.duration <= 0 THEN anim.toValue
                      ELSE Toward(animatedValue, anim.toValue)
  /\ last' = Op("frame")
  /\ completeCalls' = 0
  /\ UNCHANGED <<props, children, phase, animating, anim, metrics, timers,
                 inflight>>

\* the completion callback of the animation, called with {finished: true}
onEnd ==
  IF loop
    THEN resetAnimation
    ELSE stop /\ UNCHANGED timers

AnimationEnd ==
  /\ anim.active
  /\ anim.durKind = "num"
  /\ animatedValue = anim.toValue
  /\ onEnd
  /\ completeCalls' = CallsAtEnd(TRUE)
  /\ last' = Op("finished")
  /\ UNCHANGED <<props, children, phase, metrics, inflight>>

Next ==
  \/ componentDidMount
  \/ \E c \in Children : componentWillReceiveProps(c)
  \/ componentWillUnmount
  \/ \E d \in Delays : CallStartAnimation(d)
  \/ CallStopAnimation
  \/ CallResetAnimation
  \/ ContentSizeChange
  \/ TimerFire
  \/ MeasureDone
  \/ AnimationFrame
  \/ AnimationEnd

Spec == Init /\ [][Next]_vars

SpecAnySpeed == InitAnySpeed /\ [][Next]_vars

TypeOK ==
  /\ phase \in {"constructed", "mounted", "unmounted"}
  /\ animating \in BOOLEAN
  /\ animatedValue \in Int
  /\ distance.k \in {"null", "num", "error"}
  /\ contentFits \in BOOLEAN
  /\ timer \in 0..MaxTimerId
  /\ Len(inflight) <= MaxInflight
  /\ completeCalls \in 0..1

\* ------------------------------------------------------------ properties
Measured == last.op = "calculateMetrics" /\ last.ok
CycleRan == last.op = "callback"
TheTimer(delay) == {[id |-> timer, delay |-> delay]}

\* C1: a measurement with containerWidth >= contentWidth sets contentFits to
\* true, and a start cycle run on such metrics starts no animation.
C1_FitsWhenContainerWide ==
  /\ Measured /\ containerWidth >= textWidth => contentFits
  /\ CycleRan /\ distance.k = "num" /\ containerWidth >= textWidth
       => ~animating /\ ~anim.active

\* C2: a measurement with containerWidth < contentWidth gives the positive
\* distance contentWidth - containerWidth, and a start cycle run on such
\* metrics transitions to Animating.
C2_OverflowAnimates ==
  /\ Measured /\ containerWidth < textWidth
       => distance = NumDistance(textWidth - containerWidth) /\ distance.v > 0
  /\ CycleRan /\ distance.k = "num" /\ containerWidth < textWidth
       => animating /\ anim.active

\* C3: onMarqueeComplete is invoked exactly once by a step in which an
\* animation completes with finished = true while loop is false, and by no
\* other step: not by an interrupting stop, reset, content change or
\* unmount, and not when loop is true.
C3_CompleteOncePerFinishedCycle ==
  completeCalls = IF last.op = "finished" /\ ~loop THEN 1 ELSE 0

C3_Witness ==
  /\ last.op = "finished"
  /\ ~loop
  /\ completeCalls = 1
  /\ distance.k = "num"

\* C4: when loop is true, a finished = true completion leaves the offset at
\* 0, the controller Idle and exactly one timer pending, with delay
\* max(100, marqueeResetDelay); and an animation starts only in a step that
\* fires a pending timer.
C4_AfterLoopEnd ==
  last.op = "finished" /\ loop =>
    /\ animatedValue = 0
    /\ ~animating
    /\ ~anim.active
    /\ pendingT = TheTimer(IF marqueeResetDelay > 100
                             THEN marqueeResetDelay ELSE 100)

C4_StartsOnlyFromTimer ==
  ~anim.active /\ anim'.active => pendingT # {} /\ pendingT' = {}

C5_StartWhileAnimatingNoOp ==
  [][last'.op = "startAnimation" /\ animating =>
       UNCHANGED <<animating, timers, anim, animatedValue, metrics,
                   inflight>>]_vars

C5_Witness ==
  /\ last.op = "startAnimation"
  /\ last.was
  /\ animating
  /\ anim.active
  /\ anim.toValue < 0

C7_NothingAfterUnmount ==
  phase = "unmounted" =>
    /\ pendingT = {}
    /\ ~anim.active
    /\ animatedValue = 0
    /\ ~animating
    /\ completeCalls = 0
    /\ last.op \in {"componentWillUnmount", "calculateMetrics"}

C7_Witness ==
  /\ phase = "unmounted"
  /\ last.op = "componentWillUnmount"
  /\ last.was
  /\ Len(inflight) > 0

\* C8: after stopAnimation returns no timer is pending.
C8_StopCancelsTimer ==
  last.op = "stopAnimation" => pendingT = {}

\* C9: when the measurement of a start cycle fails, that cycle started no
\* animation.
C9_FailedMeasureNoAnimation ==
  last.op = "calculateMetrics" /\ last.origin = "start" /\ ~last.ok
    => last.decision = "skip"

\* C10: the animation driver is invoked from offset 0 with toValue =
\* -distance and duration = distance / speed * 1000, where distance is the
\* positive overflow contentWidth - containerWidth of the current metrics.
C10_DriverArguments ==
  CycleRan /\ anim.active =>
    /\ anim.from = 0
    /\ distance.k = "num"
    /\ distance.v > 0
    /\ distance.v = textWidth - containerWidth
    /\ anim.toValue = 0 - distance.v
    /\ anim.duration * speed = distance.v * 1000

\* C11: with speed <= 0 the animation driver is never invoked with a
\* duration that comes from a division by zero, is infinite or is negative.
C11_NonPositiveSpeedGuarded ==
  CycleRan /\ anim.active /\ speed <= 0 =>
    /\ speed # 0
    /\ anim.durKind = "num"
    /\ anim.duration >= 0

\* the state componentDidMount leaves: a start scheduled with delay
\* marqueeDelay exactly when marqueeOnStart is true
AfterMount ==
  last'.op = "componentDidMount" =>
    /\ pendingT' = IF marqueeOnStart THEN {[id |-> timer', delay |-> marqueeDelay]}
                   ELSE {}
    /\ ~animating'
    /\ animatedValue' = 0

\* as long as no timer was ever scheduled the controller rests Idle at 0
RestsUntilScheduled ==
  phase' = "mounted" /\ timer' = 0 =>
    pendingT' = {} /\ ~animating' /\ ~anim'.active /\ animatedValue' = 0

\* the first timer of an instance mounted with marqueeOnStart = false
FirstSchedule == ~marqueeOnStart /\ timer = 0 /\ timer' # 0

ContentChanged == last'.op = "componentWillReceiveProps" /\ last'.changed

\* C12 as claimed: on mount a start is scheduled with delay marqueeDelay iff
\* marqueeOnStart; without it the controller stays Idle at offset 0 with no
\* timer until startAnimation is called or the content changes.
C12_MountStartsOnlyOnRequest ==
  [][/\ AfterMount
     /\ RestsUntilScheduled
     /\ FirstSchedule => last'.op = "startAnimation" \/ ContentChanged]_vars

\* C12 as amended: ... until startAnimation or resetAnimation is called or
\* the content changes.
C12_MountStartsOnlyOnCall ==
  [][/\ AfterMount
     /\ RestsUntilScheduled
     /\ FirstSchedule =>
          \/ last'.op \in {"startAnimation", "resetAnimation"}
          \/ ContentChanged]_vars

C12_Witness ==
  /\ last.op = "componentDidMount"
  /\ marqueeOnStart
  /\ marqueeDelay = 300
  /\ pendingT = TheTimer(300)

\* C13: when the timer callback has taken its decision, the measurement that
\* cycle requested has completed, and the metrics it decided on are not the
\* invalidated ones.
C13_DecisionAfterMeasurement ==
  CycleRan =>
    /\ \A i \in 1..Len(inflight) : inflight[i].origin # "start"
    /\ distance.k # "null"

\* C14: whenever the animation driver is invoked, distance is a measured
\* number strictly greater than 0.
C14_AnimatesOnlyPositiveDistance ==
  CycleRan /\ ~last.was /\ animating => distance.k = "num" /\ distance.v > 0

\* C15: whenever the controller is Idle the offset is 0.
C15_IdleOffsetZero ==
  ~animating => animatedValue = 0

C15_Witness ==
  /\ ~animating
  /\ last.op = "stopAnimation"
  /\ last.was
  /\ animatedValue = 0
  /\ distance.k = "num"

\* C16: whenever distance is a measured positive number, the offset lies in
\* [-distance, 0].
C16_OffsetWithinDistance ==
  distance.k = "num" /\ distance.v > 0 =>
    0 - distance.v <= animatedValue /\ animatedValue <= 0

\* C17: at most one delayed callback is pending, and it is the one this.timer
\* names, so a replaced or cancelled callback never fires; clearing with no
\* timer set changes nothing.
C17_OnePending ==
  /\ Cardinality(pendingT) <= 1
  /\ \A p \in pendingT : p.id = timer

C17_ClearNothingIsNoOp ==
  last'.op = "componentWillUnmount" /\ timer = 0 /\ ~animating =>
    UNCHANGED <<timers, animating, animatedValue, anim, metrics, inflight>>

C18_OneCycleInFlight ==
  /\ Len(inflight) <= 1
  /\ last.op = "componentWillReceiveProps" /\ last.changed => inflight = <<>>

\* C19: a content-size-change notification and the measurement it started
\* leave the controller state, the offset, the animation in flight and the
\* timer unchanged; the notification itself leaves the metrics unchanged too.
C19_SizeChangeOnlyMeasures ==
  [][/\ last'.op = "onContentSizeChange" =>
          UNCHANGED <<animating, animatedValue, anim, timers, metrics>>
     /\ last'.op = "calculateMetrics" /\ last'.origin = "size" =>
          UNCHANGED <<animating, animatedValue, anim, timers>>]_vars

C19_Witness ==
  /\ last.op = "calculateMetrics"
  /\ last.origin = "size"
  /\ ~last.ok
  /\ last.was
  /\ anim.active
  /\ animatedValue < 0

\* C20: while the controller is Animating no delayed start is pending.
C20_TimerExcludesAnimating ==
  animating => pendingT = {}

C20_Witness ==
  /\ animating
  /\ last.op = "callback"
  /\ ~last.was
  /\ pendingT = {}
  /\ timer # 0
  /\ distance.k = "num"

====
